---- MODULE Spec2Model ----
(***************************************************************************)
(* BLOCK-DARK (src/app.py): a Streamlit dashboard that fetches the         *)
(* transaction history of one address, aggregates it and draws the         *)
(* transaction graph.                                                      *)
(*                                                                         *)
(* Representation.                                                         *)
(*  - A Python dict is a TLA+ record; an optional key ('addr' of an        *)
(*    output, 'fee' of a transaction) is a field that may be missing, and  *)
(*    `'k' in d` is `"k" \in DOMAIN d`.                                    *)
(*  - A keyword parameter left at its default None is a missing field of   *)
(*    the argument record.                                                 *)
(*  - A pandas Timestamp is [d |-> days since the epoch, s |-> second of   *)
(*    the day]; a transaction's 'time' is an integer of Unix seconds and a *)
(*    date input is an integer of days.  The clock is read to the second.  *)
(*  - A float quotient a / b is the exact rational [num |-> a, den |-> b]. *)
(*  - An exception leaving a function is the value Raised(kind).           *)
(*  - The layout positions of nx.spring_layout (drawn at random) are not   *)
(*    represented; no figure attribute below depends on them.              *)
(***************************************************************************)
EXTENDS Integers, Sequences, FiniteSets, TLC

VARIABLES
    ledger,        \* what the upstream API serves for the address
    ui,            \* the sidebar widgets' values
    now,           \* the wall clock (pd.Timestamp.now())
    pc,            \* position of the script run inside main()
    transactions,  \* main's `transactions` / the functions' argument
    args,          \* arguments of visualize_address_connections
    overview,      \* result of get_wallet_overview
    stats,         \* result of get_additional_stats
    fig,           \* result of visualize_address_connections
    screen,        \* what the run has rendered so far, in order
    calls,         \* the functions the run has called so far, in order
    prev           \* the results of the run before this one (history)

vars == <<ledger, ui, now, pc, transactions, args, overview, stats, fig,
          screen, calls, prev>>

-----------------------------------------------------------------------------
(* Bounds and input domains *)

\* Largest number of records of a snapshot.
MaxTxs == 2

DayLen == 24 * 3600

Midnight(day) == day * DayLen

\* pd.to_datetime(seconds, unit='s')
ToDatetime(seconds) == [d |-> seconds \div DayLen, s |-> seconds % DayLen]

\* pd.Timestamp(date): midnight of that day
DateTimestamp(day) == [d |-> day, s |-> 0]

\* Timestamp - pd.Timedelta(hours=24)
Minus24h(ts) == [d |-> ts.d - 1, s |-> ts.s]

TsLess(a, b) == a.d < b.d \/ (a.d = b.d /\ a.s < b.s)

TsGeq(a, b) == ~TsLess(a, b)

None == [none |-> TRUE]

Raised(kind) == [exc |-> kind]

IsRaised(v) == "exc" \in DOMAIN v

HashNames == <<"h1", "h2", "h3", "h4">>

\* The start of the day the inputs are centred on.
T0 == Midnight(19400)

Sum(s) ==
    LET RECURSIVE Upto(_)
        Upto(n) == IF n = 0 THEN 0 ELSE Upto(n - 1) + s[n]
    IN Upto(Len(s))

Min(S) == CHOOSE x \in S : \A y \in S : x <= y

Max(S) == CHOOSE x \in S : \A y \in S : x >= y

\* Snapshots of at most MaxTxs records drawn from Bodies; the record at
\* position i carries the i-th hash (transaction hashes are unique).
SnapshotsOver(Bodies, Balances) ==
    UNION { { [final_balance |-> b,
               txs |-> [i \in 1..n |-> body[i] @@ [hash |-> HashNames[i]]]]
              : body \in [1..n -> Bodies], b \in Balances }
            : n \in 0..MaxTxs }

-----------------------------------------------------------------------------
(* Aggregator *)

IsReceived(tx) == tx.result > 0

IsSent(tx) == tx.result < 0

HasFee(tx) == "fee" \in DOMAIN tx

TrueDiv(a, b) == [num |-> a, den |-> b]

TotalReceived(txs) ==
    LET recv == SelectSeq(txs, IsReceived)
    IN Sum([i \in DOMAIN recv |-> recv[i].result])

TotalSentSigned(txs) ==
    LET sent == SelectSeq(txs, IsSent)
    IN Sum([i \in DOMAIN sent |-> sent[i].result])

TotalSent(txs) ==
    LET sent == SelectSeq(txs, IsSent)
    IN Sum([i \in DOMAIN sent |-> -sent[i].result])

get_wallet_overview(txn, clock) ==
    LET txs == txn.txs
        last_24h_time == Minus24h(clock)
        Recent(tx) == TsGeq(ToDatetime(tx.time), last_24h_time)
        RecentReceived(tx) == IsReceived(tx) /\ Recent(tx)
        RecentSent(tx) == IsSent(tx) /\ Recent(tx)
        recv24 == SelectSeq(txs, RecentReceived)
        sent24 == SelectSeq(txs, RecentSent)
        times == { txs[i].time : i \in DOMAIN txs }
    IN IF times = {}
       THEN Raised("ValueError")
       ELSE [ balance |-> txn.final_balance,
              total_received |-> TotalReceived(txs),
              total_sent |-> TotalSent(txs),
              first_transaction |-> ToDatetime(Min(times)),
              last_transaction |-> ToDatetime(Max(times)),
              last_24h_received |->
                  Sum([i \in DOMAIN recv24 |-> recv24[i].result]),
              last_24h_sent |->
                  Sum([i \in DOMAIN sent24 |-> -sent24[i].result]) ]

get_additional_stats_matching(txn) ==
    LET txs == txn.txs
        fees == SelectSeq(txs, HasFee)
        recv == SelectSeq(txs, IsReceived)
        sent == SelectSeq(txs, IsSent)
    IN IF Len(txs) = 0
       THEN Raised("ZeroDivisionError")
       ELSE [ avg_fee |->
                  TrueDiv(Sum([i \in DOMAIN fees |-> fees[i].fee]), Len(fees)),
              avg_sent |->
                  TrueDiv(Sum([i \in DOMAIN sent |-> -sent[i].result]), Len(sent)),
              avg_received |->
                  TrueDiv(Sum([i \in DOMAIN recv |-> recv[i].result]), Len(recv)) ]

get_additional_stats(txn) ==
    LET txs == txn.txs
        fees == SelectSeq(txs, HasFee)
        recv == SelectSeq(txs, IsReceived)
        sent == SelectSeq(txs, IsSent)
        total_fees == Sum([i \in DOMAIN fees |-> fees[i].fee])
    IN IF Len(txs) = 0
       THEN Raised("ZeroDivisionError")
       ELSE [ avg_fee |-> TrueDiv(total_fees, Len(txs)),
              avg_sent |->
                  TrueDiv(Sum([i \in DOMAIN sent |-> -sent[i].result]), Len(txs)),
              avg_received |->
                  TrueDiv(Sum([i \in DOMAIN recv |-> recv[i].result]), Len(txs)) ]

-----------------------------------------------------------------------------
(* Graph Builder *)

EmptyGraph == [nodes |-> <<>>, edges |-> {}]

HasNode(G, n) == \E i \in DOMAIN G.nodes : G.nodes[i] = n

AddNode(G, n) ==
    IF HasNode(G, n) THEN G ELSE [G EXCEPT !.nodes = Append(@, n)]

add_edge_summing(G, u, v, value, timestamp) ==
    LET old == { e \in G.edges : e.src = u /\ e.dst = v }
        total == IF old = {} THEN value
                 ELSE (CHOOSE e \in old : TRUE).value + value
    IN [ nodes |-> AddNode(AddNode(G, u), v).nodes,
         edges |-> (G.edges \ old) \cup
                   { [src |-> u, dst |-> v, value |-> total,
                      timestamp |-> timestamp] } ]

\* nx.DiGraph.add_edge: both endpoints become nodes; an edge u -> v that
\* exists keeps its identity and has its attributes overwritten.
add_edge(G, u, v, value, timestamp) ==
    [ nodes |-> AddNode(AddNode(G, u), v).nodes,
      edges |-> { e \in G.edges : ~(e.src = u /\ e.dst = v) } \cup
                { [src |-> u, dst |-> v, value |-> value,
                   timestamp |-> timestamp] } ]

\* len(G[node]): the successors of node in the DiGraph
Successors(G, n) == { e.dst : e \in { x \in G.edges : x.src = n } }

IsUnset(a, key) == key \notin DOMAIN a

OutOfRangeExclusive(a, tx_time) ==
    /\ ~IsUnset(a, "time_range")
    /\ \/ ~TsLess(a.time_range[1], tx_time)
       \/ ~TsLess(tx_time, a.time_range[2])

\* line 79: time_range and (tx_time < time_range[0] or tx_time > time_range[1])
OutOfRange(a, tx_time) ==
    /\ ~IsUnset(a, "time_range")
    /\ \/ TsLess(tx_time, a.time_range[1])
       \/ TsLess(a.time_range[2], tx_time)

FilteredOutStrict(a, tx) ==
    /\ ~IsUnset(a, "filter_type")
    /\ \/ a.filter_type = "Sent" /\ tx.result >= 0
       \/ a.filter_type = "Received" /\ tx.result <= 0

\* lines 81-84
FilteredOut(a, tx) ==
    /\ ~IsUnset(a, "filter_type")
    /\ \/ a.filter_type = "Sent" /\ tx.result > 0
       \/ a.filter_type = "Received" /\ tx.result < 0

\* line 86
Qualifies(a, out) ==
    /\ "addr" \in DOMAIN out
    /\ IsUnset(a, "min_amount") \/ out.value >= a.min_amount

\* lines 85-87: the outputs of one surviving record, in order
RECURSIVE AddOutputs(_, _, _, _)
AddOutputs(G, a, tx, k) ==
    IF k > Len(tx.out) THEN G
    ELSE LET out == tx.out[k]
             G1 == IF Qualifies(a, out)
                   THEN add_edge(G, tx.hash, out.addr, out.value,
                                 ToDatetime(tx.time))
                   ELSE G
         IN AddOutputs(G1, a, tx, k + 1)

\* lines 75-87: the loop over the records, in order
RECURSIVE BuildGraph(_, _, _, _)
BuildGraph(G, a, txs, i) ==
    IF i > Len(txs) THEN G
    ELSE LET tx == txs[i]
             G1 == IF OutOfRange(a, ToDatetime(tx.time)) \/ FilteredOut(a, tx)
                   THEN G
                   ELSE AddOutputs(G, a, tx, 1)
         IN BuildGraph(G1, a, txs, i + 1)

\* lines 105-112: one entry per node, in node order
NodeText(G, n) ==
    "Address: " \o n \o ", Transactions: " \o ToString(Cardinality(Successors(G, n)))

NodeSize(G, n) == 20 + Cardinality(Successors(G, n)) * 5

NodeColor(G, n) == Cardinality(Successors(G, n))

\* The figure, with the DiGraph it was drawn from.
visualize_address_connections(address, txn, a) ==
    LET G == BuildGraph(EmptyGraph, a, txn.txs, 1)
    IN [ graph |-> G,
         edge_trace |-> Cardinality(G.edges),
         text |-> [k \in DOMAIN G.nodes |-> NodeText(G, G.nodes[k])],
         size |-> [k \in DOMAIN G.nodes |-> NodeSize(G, G.nodes[k])],
         color |-> [k \in DOMAIN G.nodes |-> NodeColor(G, G.nodes[k])] ]

-----------------------------------------------------------------------------
(* The functions called on their own: inputs drawn at Init *)

NoAddrOut(v) == [value |-> v]

Out(a, v) == [addr |-> a, value |-> v]

\* Output lists: an output of unknown address before a small output; the
\* same address twice with different values, then a second address.
OutSeqs ==
    { <<NoAddrOut(2), Out("A", 1)>>,
      <<Out("A", 2), Out("A", 1), Out("B", 2)>> }

GraphTimes == {T0 - 1, T0, T0 + 1}

GraphBodies ==
    [time : GraphTimes, result : {-1, 0, 1}, fee : {0}, out : OutSeqs]

GraphSnapshots == SnapshotsOver(GraphBodies, {0})

GraphArgs ==
    { f @@ m @@ t :
        f \in {<<>>} \cup [filter_type : {"All", "Sent", "Received"}],
        m \in {<<>>} \cup [min_amount : {2}],
        t \in {<<>>} \cup [time_range : {<<ToDatetime(T0), ToDatetime(T0)>>}] }

AggBodies ==
    [time : {T0 - 1, T0}, result : {-2, 0, 3}, fee : {1, 2}, out : {<<>>}]
        \cup [time : {T0 - 1, T0}, result : {-2, 0, 3}, out : {<<>>}]

AggSnapshots == SnapshotsOver(AggBodies, {0, 5})

\* Clock readings 24 hours after T0 and one second later.
AggNows == {ToDatetime(T0 + DayLen), ToDatetime(T0 + DayLen + 1)}

InitIdle ==
    /\ ledger = None
    /\ ui = None
    /\ pc = "pure"
    /\ args = None
    /\ overview = None
    /\ stats = None
    /\ fig = None
    /\ screen = <<>>
    /\ calls = <<>>
    /\ prev = None

InitAgg ==
    /\ InitIdle
    /\ transactions \in AggSnapshots
    /\ now \in AggNows

CallOverview ==
    /\ pc = "pure"
    /\ overview = None
    /\ overview' = get_wallet_overview(transactions, now)
    /\ calls' = Append(calls, "get_wallet_overview")
    /\ UNCHANGED <<ledger, ui, now, pc, transactions, args, stats, fig,
                   screen, prev>>

CallStats ==
    /\ pc = "pure"
    /\ stats = None
    /\ stats' = get_additional_stats(transactions)
    /\ calls' = Append(calls, "get_additional_stats")
    /\ UNCHANGED <<ledger, ui, now, pc, transactions, args, overview, fig,
                   screen, prev>>

NextAgg == CallOverview \/ CallStats

SpecAgg == InitAgg /\ [][NextAgg]_vars

InitGraph ==
    /\ ledger = None
    /\ ui = None
    /\ pc = "pure"
    /\ overview = None
    /\ stats = None
    /\ fig = None
    /\ screen = <<>>
    /\ calls = <<>>
    /\ prev = None
    /\ now = ToDatetime(T0)
    /\ transactions \in GraphSnapshots
    /\ args \in GraphArgs

CallVisualize ==
    /\ pc = "pure"
    /\ fig = None
    /\ fig' = visualize_address_connections("addr1", transactions, args)
    /\ calls' = Append(calls, "visualize_address_connections")
    /\ UNCHANGED <<ledger, ui, now, pc, transactions, args, overview, stats,
                   screen, prev>>

NextGraph == CallVisualize

SpecGraph == InitGraph /\ [][NextGraph]_vars

-----------------------------------------------------------------------------
(* main(): one script run per press of the button *)

\* The options of the filter selectbox (line 228), '전체', '보낸 트랜잭션'
\* and '받은 트랜잭션', romanised.
OptionAll == "jeonche"

OptionSent == "bonaen teuraensaegsyeon"

OptionReceived == "bad-eun teuraensaegsyeon"

FilterOptions == {OptionAll, OptionSent, OptionReceived}

TestAddress == "1PuJjnF476W3zXfVYmJfGnouzFDAXakkL4"

\* datetime(2023, 1, 1) and datetime(2024, 10, 23), in days since the epoch
TestStartDay == 19358

TestEndDay == 20019

Days == {19400, 19401}

UiStates ==
    [ address : {"", "addr1", "test"},
      trace_depth : {2},
      start_date : Days,
      end_date : Days,
      min_amount : {0, 2},
      filter_type : FilterOptions ]

\* The records of the upstream ledger: a receipt at T0, a payment a day
\* later with one output of unknown address, a neutral record without fee.
RunBodies ==
    { [time |-> T0, result |-> 2, fee |-> 1, out |-> <<Out("A", 2)>>],
      [time |-> T0 + DayLen, result |-> -1, fee |-> 1,
       out |-> <<Out("B", 1), NoAddrOut(2)>>],
      [time |-> T0 + 1, result |-> 0, out |-> <<NoAddrOut(1)>>] }

Ledgers == SnapshotsOver(RunBodies, {5})

RunNows == {ToDatetime(T0 + DayLen), ToDatetime(T0 + 2 * DayLen + 1)}

\* lines 231-234: the sentinel address selects the demonstration inputs
Address(u) == IF u.address = "test" THEN TestAddress ELSE u.address

\* lines 231-236
TimeRange(u) ==
    IF u.address = "test"
    THEN <<DateTimestamp(TestStartDay), DateTimestamp(TestEndDay)>>
    ELSE <<DateTimestamp(u.start_date), DateTimestamp(u.end_date)>>

TruthyAlways(v) == TRUE

\* Python truth value of None or of a dict
Truthy(v) == v # None /\ DOMAIN v # {}

Init ==
    /\ ledger \in Ledgers
    /\ now \in RunNows
    /\ ui = [ address |-> "", trace_depth |-> 2, start_date |-> now.d,
              end_date |-> now.d, min_amount |-> 0, filter_type |-> OptionAll ]
    /\ pc = "idle"
    /\ transactions = None
    /\ args = None
    /\ overview = None
    /\ stats = None
    /\ fig = None
    /\ screen = <<"title">>
    /\ calls = <<>>
    /\ prev = None

\* The clock advances, at any point of a run or between runs.
Tick ==
    /\ \E t \in RunNows : TsLess(now, t) /\ now' = t
    /\ UNCHANGED <<ledger, ui, pc, transactions, args, overview, stats, fig,
                   screen, calls, prev>>

\* The user changes a widget: the script reruns with the button unpressed
\* and draws only the title (lines 216-238).
EditInputs ==
    /\ pc = "idle"
    /\ \E u \in UiStates : u # ui /\ ui' = u
    /\ transactions' = None
    /\ args' = None
    /\ overview' = None
    /\ stats' = None
    /\ fig' = None
    /\ screen' = <<"title">>
    /\ calls' = <<>>
    /\ prev' = None
    /\ UNCHANGED <<ledger, now, pc>>

\* What the finished run computed, kept to compare the next run with.
RunRecord ==
    [ ui |-> ui, transactions |-> transactions, overview |-> overview,
      stats |-> stats, fig |-> fig ]

\* lines 238-239: the button is pressed and the script reruns
Button ==
    /\ pc = "idle"
    /\ prev' = IF calls # <<>> THEN RunRecord ELSE prev
    /\ transactions' = None
    /\ args' = None
    /\ overview' = None
    /\ stats' = None
    /\ fig' = None
    /\ screen' = <<"title">>
    /\ calls' = <<>>
    /\ pc' = IF Address(ui) # "" THEN "fetch" ELSE "idle"
    /\ UNCHANGED <<ledger, ui, now>>

\* The failures of requests.get and of raise_for_status.
RequestExceptions == {"ConnectionError", "HTTPError"}

\* lines 64-69 and 240-241: the request succeeds
FetchOk ==
    /\ pc = "fetch"
    /\ transactions' = ledger
    /\ calls' = Append(calls, "get_transaction_history")
    /\ pc' = IF Truthy(ledger) THEN "overview" ELSE "idle"
    /\ UNCHANGED <<ledger, ui, now, args, overview, stats, fig, screen, prev>>

\* lines 70-72 and 240-241: requests.RequestException
FetchFail ==
    /\ pc = "fetch"
    /\ transactions' = None
    /\ \E cause \in RequestExceptions :
          screen' = Append(screen, "st.error: " \o cause)
    /\ calls' = Append(calls, "get_transaction_history")
    /\ pc' = IF Truthy(None) THEN "overview" ELSE "idle"
    /\ UNCHANGED <<ledger, ui, now, args, overview, stats, fig, prev>>

\* An exception that leaves main: Streamlit shows it and ends the run.
Uncaught(v) == Append(screen, "exception: " \o v.exc)

\* lines 242-243
Overview ==
    /\ pc = "overview"
    /\ LET r == get_wallet_overview(transactions, now)
       IN /\ overview' = r
          /\ screen' = IF IsRaised(r) THEN Uncaught(r)
                        ELSE Append(screen, "overview_panel")
          /\ pc' = IF IsRaised(r) THEN "idle" ELSE "stats"
    /\ calls' = Append(calls, "get_wallet_overview")
    /\ UNCHANGED <<ledger, ui, now, transactions, args, stats, fig, prev>>

\* lines 246-247
Stats ==
    /\ pc = "stats"
    /\ LET r == get_additional_stats(transactions)
       IN /\ stats' = r
          /\ screen' = IF IsRaised(r) THEN Uncaught(r)
                        ELSE screen \o <<"stats_panel", "bar_chart">>
          /\ pc' = IF IsRaised(r) THEN "idle" ELSE "graph"
    /\ calls' = Append(calls, "get_additional_stats")
    /\ UNCHANGED <<ledger, ui, now, transactions, args, overview, fig, prev>>

\* line 250: the arguments main passes
GraphArguments(u) ==
    [ filter_type |-> u.filter_type, min_amount |-> u.min_amount,
      time_range |-> TimeRange(u) ]

\* lines 249-251
Graph ==
    /\ pc = "graph"
    /\ args' = GraphArguments(ui)
    /\ fig' = visualize_address_connections(Address(ui), transactions, args')
    /\ screen' = screen \o <<"graph_header", "network_chart">>
    /\ calls' = Append(calls, "visualize_address_connections")
    /\ pc' = "details"
    /\ UNCHANGED <<ledger, ui, now, transactions, overview, stats, prev>>

\* lines 161-173: one expander per record; tx['fee'] of a record without
\* fee raises KeyError inside its expander
RECURSIVE DetailList(_, _)
DetailList(txs, i) ==
    IF i > Len(txs) THEN <<>>
    ELSE IF HasFee(txs[i])
         THEN <<"expander " \o txs[i].hash>> \o DetailList(txs, i + 1)
         ELSE <<"expander " \o txs[i].hash, "exception: KeyError">>

\* line 254
Details ==
    /\ pc = "details"
    /\ screen' = screen \o <<"details_header">> \o DetailList(transactions.txs, 1)
    /\ calls' = Append(calls, "display_transaction_details")
    /\ pc' = "idle"
    /\ UNCHANGED <<ledger, ui, now, transactions, args, overview, stats, fig,
                   prev>>

Next ==
    \/ Tick
    \/ EditInputs
    \/ Button
    \/ FetchOk
    \/ FetchFail
    \/ Overview
    \/ Stats
    \/ Graph
    \/ Details

Spec == Init /\ [][Next]_vars

-----------------------------------------------------------------------------
(* Properties of the aggregator (SpecAgg) *)

\* Sum of f over a finite set of indices.
RECURSIVE SetSum(_, _)
SetSum(S, f) ==
    IF S = {} THEN 0
    ELSE LET x == CHOOSE y \in S : TRUE IN f[x] + SetSum(S \ {x}, f)

Records == transactions.txs

ResultOf == [i \in DOMAIN Records |-> Records[i].result]

FeeOf ==
    [i \in DOMAIN Records |->
        IF "fee" \in DOMAIN Records[i] THEN Records[i].fee ELSE 0]

Positive == { i \in DOMAIN Records : Records[i].result > 0 }

Negative == { i \in DOMAIN Records : Records[i].result < 0 }

Neutral == { i \in DOMAIN Records : Records[i].result = 0 }

OverviewReturned == overview # None /\ ~IsRaised(overview)

StatsReturned == stats # None /\ ~IsRaised(stats)

\* C2: for a snapshot with no records, get_wallet_overview and
\* get_additional_stats both fail with the one error kind EmptyDataset.
C2_EmptyDatasetKind ==
    (Records = <<>> /\ overview # None /\ stats # None) =>
        /\ IsRaised(overview) /\ IsRaised(stats)
        /\ overview.exc = stats.exc
        /\ overview.exc = "EmptyDataset"

\* C6: for a snapshot with records, total_received is the sum of result
\* over the records with result > 0, total_sent the sum of -result over
\* the records with result < 0 (a record with result = 0 is in neither),
\* and balance is final_balance, whatever the two totals are.
C6_OverviewTotals ==
    (Records # <<>> /\ overview # None) =>
        /\ ~IsRaised(overview)
        /\ overview.total_received = SetSum(Positive, ResultOf)
        /\ overview.total_sent = -SetSum(Negative, ResultOf)
        /\ overview.total_received - overview.total_sent
               = SetSum(DOMAIN Records \ Neutral, ResultOf)
        /\ overview.balance = transactions.final_balance

\* C6 witness: an overview of a snapshot with a neutral record and a
\* receipt whose balance is not the difference of the totals.
C6_Witness ==
    /\ OverviewReturned
    /\ Neutral # {} /\ Positive # {}
    /\ overview.total_received > 0
    /\ overview.balance # overview.total_received - overview.total_sent

\* C7: for a snapshot with N > 0 records, each of avg_fee, avg_sent and
\* avg_received times N is its sum (fees present, -result over result < 0,
\* result over result > 0): the divisor is the count of all records.
C7_AveragesOverAllRecords ==
    (Records # <<>> /\ stats # None) =>
        /\ ~IsRaised(stats)
        /\ \A k \in {"avg_fee", "avg_sent", "avg_received"} : stats[k].den > 0
        /\ stats.avg_fee.num * Len(Records)
               = SetSum(DOMAIN Records, FeeOf) * stats.avg_fee.den
        /\ stats.avg_sent.num * Len(Records)
               = -SetSum(Negative, ResultOf) * stats.avg_sent.den
        /\ stats.avg_received.num * Len(Records)
               = SetSum(Positive, ResultOf) * stats.avg_received.den

\* C7 witness: stats of a snapshot where one record has no fee, the other
\* has one, and only one of the two is a receipt.
C7_Witness ==
    /\ StatsReturned
    /\ \E i, j \in DOMAIN Records :
          /\ "fee" \notin DOMAIN Records[i]
          /\ "fee" \in DOMAIN Records[j] /\ Records[j].fee > 0
    /\ Cardinality(Positive) = 1 /\ Len(Records) = 2
    /\ stats.avg_received.num > 0

-----------------------------------------------------------------------------
(* Properties of the graph builder (SpecGraph) *)

Edges == fig.graph.edges

Nodes == { fig.graph.nodes[k] : k \in DOMAIN fig.graph.nodes }

Secs(ts) == ts.d * DayLen + ts.s

FilterArg ==
    IF "filter_type" \in DOMAIN args THEN args.filter_type ELSE "unset"

RangeSet == "time_range" \in DOMAIN args

MinSet == "min_amount" \in DOMAIN args

InsideRange(i) ==
    RangeSet =>
        /\ Secs(args.time_range[1]) <= Records[i].time
        /\ Records[i].time <= Secs(args.time_range[2])

OnBoundary(i) ==
    /\ RangeSet
    /\ Secs(args.time_range[1]) <= Secs(args.time_range[2])
    /\ Records[i].time \in {Secs(args.time_range[1]), Secs(args.time_range[2])}

ExcludedByResult(i) ==
    \/ FilterArg = "Sent" /\ Records[i].result > 0
    \/ FilterArg = "Received" /\ Records[i].result < 0

QualifyingOutputs(i) ==
    { k \in DOMAIN Records[i].out :
        /\ "addr" \in DOMAIN Records[i].out[k]
        /\ MinSet => Records[i].out[k].value >= args.min_amount }

Surviving == { i \in DOMAIN Records : InsideRange(i) /\ ~ExcludedByResult(i) }

Contributes(i) == \E e \in Edges : e.src = Records[i].hash

\* The nodes joined to n by an edge in either direction.
Neighbours(n) ==
    { e.dst : e \in { x \in Edges : x.src = n } }
        \cup { e.src : e \in { x \in Edges : x.dst = n } }

\* C4: of the records inside the time range that have a qualifying output,
\* Sent drops exactly those with result > 0, Received exactly those with
\* result < 0 (result = 0 stays under both), All or unset drops none.
C4_ResultFilter ==
    fig # None =>
        \A i \in DOMAIN Records :
            (InsideRange(i) /\ QualifyingOutputs(i) # {}) =>
                /\ FilterArg = "Sent" =>
                      (~Contributes(i) <=> Records[i].result > 0)
                /\ FilterArg = "Received" =>
                      (~Contributes(i) <=> Records[i].result < 0)
                /\ FilterArg \in {"All", "unset"} => Contributes(i)
                /\ Records[i].result = 0 => Contributes(i)

\* C4 witness: under Sent, a neutral record has an edge and a receipt that
\* is in range with a qualifying output has none.
C4_Witness ==
    /\ fig # None
    /\ FilterArg = "Sent"
    /\ \E i, j \in DOMAIN Records :
          /\ Records[i].result = 0 /\ Contributes(i)
          /\ Records[j].result > 0 /\ InsideRange(j)
          /\ QualifyingOutputs(j) # {} /\ ~Contributes(j)

\* C5: every edge comes from an output with a known address and a value of
\* at least min_amount, of a record inside the time range; a record outside
\* the range has no edge; a record exactly at start or at end is kept.
C5_EdgeSources ==
    fig # None =>
        /\ \A e \in Edges :
              \E i \in DOMAIN Records :
                 /\ Records[i].hash = e.src
                 /\ InsideRange(i)
                 /\ \E k \in DOMAIN Records[i].out :
                       LET out == Records[i].out[k]
                       IN /\ "addr" \in DOMAIN out
                          /\ out.addr = e.dst
                          /\ out.value = e.value
                          /\ MinSet => out.value >= args.min_amount
        /\ \A i \in DOMAIN Records : ~InsideRange(i) => ~Contributes(i)
        /\ \A i \in DOMAIN Records :
              (OnBoundary(i) /\ ~ExcludedByResult(i)
                 /\ QualifyingOutputs(i) # {}) => Contributes(i)

\* C5 witness: with a range and a minimum set, a record at the boundary has
\* an edge although one of its outputs is below the minimum, and a record
\* outside the range with qualifying outputs has none.
C5_Witness ==
    /\ fig # None
    /\ RangeSet /\ MinSet
    /\ \E i, j \in DOMAIN Records :
          /\ OnBoundary(i) /\ Contributes(i)
          /\ \E k \in DOMAIN Records[i].out :
                Records[i].out[k].value < args.min_amount
          /\ ~InsideRange(j) /\ QualifyingOutputs(j) # {} /\ ~Contributes(j)

\* C9: the degree shown for a node counts its neighbours over edges in
\* either direction; text, size and colour are derived from that degree.
C9_DisplayedDegree ==
    fig # None =>
        \A k \in DOMAIN fig.graph.nodes :
            LET n == fig.graph.nodes[k]
                degree == Cardinality(Neighbours(n))
            IN /\ fig.color[k] = degree
               /\ fig.size[k] = 20 + 5 * degree
               /\ fig.text[k] = "Address: " \o n \o ", Transactions: "
                                    \o ToString(degree)

\* C10: the edges are exactly the pairs (hash, address) of the qualifying
\* outputs of the surviving records, one edge per pair, carrying the value
\* of the last qualifying output to that address and the record's time.
C10_OneEdgePerPair ==
    fig # None =>
        /\ { <<e.src, e.dst>> : e \in Edges }
              = UNION { { <<Records[i].hash, Records[i].out[k].addr>>
                          : k \in QualifyingOutputs(i) } : i \in Surviving }
        /\ \A e1, e2 \in Edges :
              (e1.src = e2.src /\ e1.dst = e2.dst) => e1 = e2
        /\ \A e \in Edges : \A i \in DOMAIN Records :
              Records[i].hash = e.src =>
                 LET ks == { k \in QualifyingOutputs(i) :
                               Records[i].out[k].addr = e.dst }
                 IN /\ e.value = Records[i].out[Max(ks)].value
                    /\ Secs(e.timestamp) = Records[i].time

\* C10 witness: two qualifying outputs of one record to one address, with
\* different values, became one edge, and the graph has another edge.
C10_Witness ==
    /\ fig # None
    /\ Cardinality(Edges) >= 2
    /\ \E e \in Edges : \E i \in DOMAIN Records :
          /\ Records[i].hash = e.src
          /\ \E k1, k2 \in QualifyingOutputs(i) :
                /\ k1 < k2
                /\ Records[i].out[k1].addr = e.dst
                /\ Records[i].out[k2].addr = e.dst
                /\ Records[i].out[k1].value # Records[i].out[k2].value

-----------------------------------------------------------------------------
(* Properties of a run of main (Spec) *)

FetchFailed == calls # <<>> /\ transactions = None

\* C1: after a failed fetch the run has shown the error and nothing else,
\* has called none of the later functions, has ended, and the button can
\* be pressed again.
C1_FetchFailureStopsRun ==
    FetchFailed =>
        /\ \E cause \in RequestExceptions :
              screen = <<"title", "st.error: " \o cause>>
        /\ calls = <<"get_transaction_history">>
        /\ overview = None /\ stats = None /\ fig = None
        /\ pc = "idle"
        /\ ENABLED Button

\* C1 witness: a run whose fetch failed has ended.
C1_Witness ==
    /\ FetchFailed
    /\ pc = "idle"
    /\ screen = <<"title", "st.error: HTTPError">>

\* C3: the filter chosen in the selectbox is applied to the drawn graph:
\* with Sent chosen no receipt has an edge, with Received no payment has.
C3_UiFilterApplied ==
    fig # None =>
        \A i \in DOMAIN Records :
            /\ (ui.filter_type = OptionSent /\ Records[i].result > 0)
                  => ~Contributes(i)
            /\ (ui.filter_type = OptionReceived /\ Records[i].result < 0)
                  => ~Contributes(i)

\* C8: two finished runs over the same snapshot with the same widget
\* values computed the same overview, the same stats and the same graph.
C8_RunsAgree ==
    (pc = "idle" /\ prev # None /\ calls # <<>>
        /\ transactions # None /\ prev.transactions = transactions
        /\ prev.ui = ui) =>
        /\ prev.overview = overview
        /\ prev.stats = stats
        /\ prev.fig = fig

====
